---- MODULE Spec2Model ----
(***************************************************************************)
(* Curve bootstrapping scripts (wirp.py, curve_s45.py): the quote and      *)
(* calendar registries, the curve builders' handle wiring, the business-   *)
(* day compounding function, the Newton implied-rate solver and the tenor  *)
(* bucket picker.                                                          *)
(*                                                                         *)
(* Numbers.  Dates are QuantLib serial numbers (1 Jan 2024 = 45292, the    *)
(* weekday is serial % 7 with 1 = Sunday ... 6 = Friday, 0 = Saturday).    *)
(* Rates are fixed-point in units of 1/RateScale (per cent), compound      *)
(* factors in units of 1/FScale = 1/(360 * RateScale), so that one accrual *)
(* term 1 + rate * days / 360 is the exact integer FScale + rate * days;   *)
(* a product of terms is rounded to the nearest unit, as a float product   *)
(* is rounded to the nearest double.                                       *)
(***************************************************************************)
EXTENDS Integers, Sequences, FiniteSets, TLC

VARIABLES
    module,          \* which script runs: "wirp" or "curve_s45"
    quotes_data,     \* Quotes._data / Quotes.quotes: ticker -> SimpleQuote (0: no key)
    heap,            \* the SimpleQuote objects: heap[o] is the value of object o
    issued,          \* history: the <<ticker, object>> pairs get has returned
    written,         \* history: the level update last wrote per ticker (0: none)
    rows,            \* the provider's reply to the last update (ticker -> px_last)
    update_raised,   \* the last update ended in an exception
    calendars_data,  \* Calendars._data: id -> [obj, holidays] (obj 0: no key)
    bds_calls,       \* history: holiday-provider calls per calendar id
    get_calls,       \* history: Calendars.get calls per id (saturating)
    cal_returned,    \* history: the <<id, calendar object>> pairs get has returned
    handle_link,     \* the RelinkableYieldTermStructureHandles: curve linked (0: empty)
    n_curves,        \* the curves bootstrapped so far
    built,           \* the results the build functions have returned
    s_pc,            \* get_implied_rate: "idle", "call", "loop", "returned", "raised"
    effective_date,
    maturity_date,
    calendar,        \* the holiday set of the calendar passed in
    prior_implied_rate,
    tgt_arg,         \* the tgt_compound_factor argument: <<>> is None, <<t>> is t
    swap_rate,       \* what swap.fairRate() returns for the window
    precision,
    h,
    tgt_compound_factor,
    guess,
    guess_compound_factor,
    result,          \* the rate returned
    err,             \* the exception raised
    visited,         \* history: the guesses the loop has left behind in this call
    policy_dates,    \* the list of policy dates
    fair_rate,       \* the fair swap rate of each policy window, from the built curves
    cur,             \* the policy window being solved (0: none)
    log,             \* history: the <<window, rate>> pairs printed
    today,           \* ql.Date.todaysDate()
    t_pc,            \* get_cur_implied_on_ticker: "call", "returned", "raised", "done"
    t_result,        \* its result: <<>> is None, else <<tenor, ticker>>
    cur_implied_on_rate  \* wirp.py 306

regVars == <<module, quotes_data, heap, issued, written, rows, update_raised>>
calVars == <<calendars_data, bds_calls, get_calls, cal_returned>>
curveVars == <<handle_link, n_curves, built>>
argVars == <<effective_date, maturity_date, calendar, prior_implied_rate, tgt_arg,
             swap_rate, precision, h>>
loopVars == <<tgt_compound_factor, guess, guess_compound_factor, visited>>
solverVars == <<s_pc, argVars, loopVars, result, err>>
policyVars == <<policy_dates, fair_rate, cur, log>>
tickerVars == <<today, t_pc, t_result, cur_implied_on_rate>>

----------------------------------------------------------------------------
(* Bounds of the model *)

\* helpers (tenor, ticker) taken from the head of each builder's ticker list
MaxHelpers == 1
\* build calls in one run
MaxBuilds == 3
\* the Calendars.get call counter saturates here
MaxGets == 2
\* holiday lists the holiday provider may return: subsets of the first
\* MaxHolidays candidate dates
MaxHolidays == 1

\* get_implied_rate's windows start on DateLo .. DateLo + MaxStart and last
\* 1 .. MaxSpan days
MaxStart == 3
MaxSpan == 5
\* solves one run of the policy-date loop prints
MaxSolves == 3
\* policy dates offered to get_cur_implied_on_ticker: up to MaxPolicyDates of
\* the MaxPolicyAhead + 1 days from DateLo + 2 on
MaxPolicyDates == 2
MaxPolicyAhead == 12
\* the precision argument, in units of 1/FScale
PrecisionUnits == 3
\* the finite-difference step h, in units of 1/RateScale
HUnits == 1

----------------------------------------------------------------------------
(* Data of the scripts *)

\* quotes are in per cent: lambda x: x / 100
RateScale == 100
\* the Actual/360 basis of one accrual term
DayBasis == 360
\* one unit of compound factor: 1.0 is FScale
FScale == DayBasis * RateScale
\* ql.Date(2, 2, 2024), a Friday
DateLo == 45324

\* The (tenor, ticker) lists, each cut to its head: the builders treat every
\* entry alike, and MaxHelpers entries of each are used.
SofrTickers ==
    << <<"1W", "USOSFR1Z Curncy">>, <<"2W", "USOSFR2Z Curncy">>,
       <<"3W", "USOSFR3Z Curncy">> >>

FedFundsTickers ==
    << <<"1W", "USSO1Z Curncy">>, <<"2W", "USSO2Z Curncy">>,
       <<"3W", "USSO3Z Curncy">> >>

\* curve_s45.build_curve: the deposit's ticker, the FRAs, the swaps
S45IndexTicker == "EUR006M Index"

S45FraTickers ==
    << <<"1", "EUFR0AG BGN Curncy">>, <<"2", "EUFR0BH BGN Curncy">>,
       <<"3", "EUFR0CI BGN Curncy">> >>

S45SwapTickers ==
    << <<"2Y", "EUSA2 BGN Curncy">>, <<"3Y", "EUSA3 BGN Curncy">>,
       <<"4Y", "EUSA4 BGN Curncy">> >>

\* wirp: the overnight index quote the script reads the prior rate from
IndexTicker == "FEDL01 Index"

Min(a, b) == IF a <= b THEN a ELSE b
Max(a, b) == IF a >= b THEN a ELSE b

HelperTickers(list) ==
    { list[i][2] : i \in 1..Min(MaxHelpers, Len(list)) }

Tickers ==
    IF module = "wirp"
    THEN {IndexTicker} \cup HelperTickers(SofrTickers) \cup HelperTickers(FedFundsTickers)
    ELSE {S45IndexTicker} \cup HelperTickers(S45FraTickers)
             \cup HelperTickers(S45SwapTickers)

\* px_last levels the market-data provider may return
Levels == {1, 2}

\* The keys the registry's clients ask for by themselves: the index ticker
\* and the first helper ticker of each list
ApiKeys ==
    IF module = "wirp"
    THEN {IndexTicker, SofrTickers[1][2], FedFundsTickers[1][2]}
    ELSE {S45IndexTicker, S45FraTickers[1][2], S45SwapTickers[1][2]}

CalIds == {"GT", "FD"}

\* Dates the holiday provider may report (Mon 5 Feb 2024, Fri 2 Feb 2024,
\* Tue 6 Feb 2024), and the holiday lists it may return.
HolidayCandidates == <<45327, 45324, 45328>>

HolidaySets ==
    SUBSET { HolidayCandidates[i] : i \in 1..Min(MaxHolidays, Len(HolidayCandidates)) }

----------------------------------------------------------------------------
(* Quotes: wirp.py 8-26, curve_s45.py 7-25 *)

\* Mutant of Quotes_get: every get stores a new SimpleQuote(0.0) under the key
Quotes_get_Replacing(data, hp, ticker) ==
    [data |-> [data EXCEPT ![ticker] = Len(hp) + 1],
     heap |-> Append(hp, 0),
     obj  |-> Len(hp) + 1]

\* get(ticker): the registry, the heap and the object returned.  A missing
\* key gets a new SimpleQuote(0.0); an existing one is returned as it is.
Quotes_get(data, hp, ticker) ==
    IF data[ticker] = 0
    THEN [data |-> [data EXCEPT ![ticker] = Len(hp) + 1],
          heap |-> Append(hp, 0),
          obj  |-> Len(hp) + 1]
    ELSE [data |-> data, heap |-> hp, obj |-> data[ticker]]

\* wirp.Quotes.set(ticker, value): get(ticker).setValue(value)
Quotes_set(data, hp, ticker, value) ==
    LET g == Quotes_get(data, hp, ticker)
    IN  [data |-> g.data, heap |-> [g.heap EXCEPT ![g.obj] = value], raised |-> FALSE]

\* curve_s45.Quotes.update's loop body: self.quotes[ticker].setValue(level),
\* a KeyError when the ticker is no key
Quotes_setitem(data, hp, ticker, value) ==
    IF data[ticker] = 0
    THEN [data |-> data, heap |-> hp, raised |-> TRUE]
    ELSE [data |-> data, heap |-> [hp EXCEPT ![data[ticker]] = value], raised |-> FALSE]

\* One row of the provider's reply written into the registry
WriteRow(st, ticker, value) ==
    IF st.raised THEN st
    ELSE IF module = "wirp"
         THEN Quotes_set(st.data, st.heap, ticker, value)
         ELSE Quotes_setitem(st.data, st.heap, ticker, value)

\* for _, row in data.iterrows(): the rows in the reply's order
RECURSIVE WriteRows(_, _, _)
WriteRows(st, reply, todo) ==
    IF todo = {} THEN st
    ELSE LET t == CHOOSE x \in todo : TRUE
         IN  WriteRows(WriteRow(st, t, reply[t]), reply, todo \ {t})

Registered == { t \in Tickers : quotes_data[t] # 0 }

\* The provider's possible replies to bdp(keys, ["px_last"]): a px_last for
\* some of the requested securities; a security it has no data for has no row.
Replies(keys) == UNION { [present -> Levels] : present \in SUBSET keys }

QuotesGet(ticker) ==
    /\ LET g == Quotes_get(quotes_data, heap, ticker)
       IN  /\ quotes_data' = g.data
           /\ heap' = g.heap
           /\ issued' = issued \cup {<<ticker, g.obj>>}
    /\ UNCHANGED <<module, written, rows, update_raised>>
    /\ UNCHANGED <<calVars, curveVars, solverVars, policyVars, tickerVars>>

\* Mutant of QuotesUpdate: a registered ticker with no row is reset to 0.0
QuotesUpdate_ResetsMissing(reply) ==
    /\ LET full == [t \in Registered |-> IF t \in DOMAIN reply THEN reply[t] ELSE 0]
           st   == WriteRows([data |-> quotes_data, heap |-> heap, raised |-> FALSE],
                             full, DOMAIN full)
       IN  /\ quotes_data' = st.data
           /\ heap' = st.heap
           /\ update_raised' = st.raised
    /\ rows' = reply
    /\ written' = [t \in DOMAIN written |->
                      IF t \in DOMAIN reply THEN reply[t] ELSE written[t]]
    /\ UNCHANGED <<module, issued>>
    /\ UNCHANGED <<calVars, curveVars, solverVars, policyVars, tickerVars>>

QuotesUpdate(reply) ==
    /\ LET st == WriteRows([data |-> quotes_data, heap |-> heap, raised |-> FALSE],
                           reply, DOMAIN reply)
       IN  /\ quotes_data' = st.data
           /\ heap' = st.heap
           /\ update_raised' = st.raised
    /\ rows' = reply
    /\ written' = [t \in DOMAIN written |->
                      IF t \in DOMAIN reply THEN reply[t] ELSE written[t]]
    /\ UNCHANGED <<module, issued>>
    /\ UNCHANGED <<calVars, curveVars, solverVars, policyVars, tickerVars>>

----------------------------------------------------------------------------
(* Calendars: wirp.py 32-55 *)

\* Mutant of Calendars_get: the cache is not consulted, every get fetches and
\* builds the calendar again
Calendars_get_AlwaysFetch(cs, id, holidays) ==
    LET nobj == 1 + Cardinality({ i \in DOMAIN cs.data : cs.data[i].obj # 0 })
        data == [cs.data EXCEPT ![id] = [obj |-> nobj, holidays |-> holidays]]
    IN  [data     |-> data,
         calls    |-> [cs.calls EXCEPT ![id] = Min(@ + 1, MaxGets + 1)],
         gets     |-> [cs.gets EXCEPT ![id] = Min(@ + 1, MaxGets)],
         returned |-> cs.returned \cup {<<id, nobj>>}]

\* get(id) on the registry state cs = [data, calls, gets, returned], with
\* `holidays` the list the holiday provider returns if it is asked.  A missing
\* id is fetched (one bds call), built as a new BespokeCalendar and cached.
Calendars_get(cs, id, holidays) ==
    LET miss == cs.data[id].obj = 0
        nobj == 1 + Cardinality({ i \in DOMAIN cs.data : cs.data[i].obj # 0 })
        data == IF miss
                THEN [cs.data EXCEPT ![id] = [obj |-> nobj, holidays |-> holidays]]
                ELSE cs.data
    IN  [data     |-> data,
         calls    |-> IF miss THEN [cs.calls EXCEPT ![id] = @ + 1] ELSE cs.calls,
         gets     |-> [cs.gets EXCEPT ![id] = Min(@ + 1, MaxGets)],
         returned |-> cs.returned \cup {<<id, data[id].obj>>}]

CalState ==
    [data |-> calendars_data, calls |-> bds_calls, gets |-> get_calls,
     returned |-> cal_returned]

SetCalState(cs) ==
    /\ calendars_data' = cs.data
    /\ bds_calls' = cs.calls
    /\ get_calls' = cs.gets
    /\ cal_returned' = cs.returned

CalendarsGet(id, holidays) ==
    /\ module = "wirp"
    /\ SetCalState(Calendars_get(CalState, id, holidays))
    /\ UNCHANGED <<regVars, curveVars, solverVars, policyVars, tickerVars>>

----------------------------------------------------------------------------
(* The curve builders: wirp.py 70-187, curve_s45.py 28-118 *)

\* quotes.get(ticker) for each helper of a ticker list, in the list's order
RECURSIVE GetHelperQuotes(_, _, _)
GetHelperQuotes(st, list, i) ==
    IF i > Min(MaxHelpers, Len(list)) THEN st
    ELSE LET g == Quotes_get(st.data, st.heap, list[i][2])
         IN  GetHelperQuotes([data   |-> g.data,
                              heap   |-> g.heap,
                              issued |-> st.issued \cup {<<list[i][2], g.obj>>}],
                             list, i + 1)

QuoteState == [data |-> quotes_data, heap |-> heap, issued |-> issued]

SetQuoteState(st) ==
    /\ quotes_data' = st.data
    /\ heap' = st.heap
    /\ issued' = st.issued

\* handle.linkTo(curve) at the end of build_sofr and build_fed_funds
LinkTo(links, hd, curve) == [links EXCEPT ![hd] = curve]

\* build_sofr(): a new empty handle, the index on it, the helpers (each reads
\* quotes.get(ticker) and calendars.get("FD"), discounting on the same
\* handle), the curve, handle.linkTo(curve)
BuildSofr(hGT, hFD) ==
    /\ module = "wirp"
    /\ Len(built) < MaxBuilds
    /\ LET hd    == Len(handle_link) + 1
           curve == n_curves + 1
       IN  /\ handle_link' = LinkTo(Append(handle_link, 0), hd, curve)
           /\ n_curves' = curve
           /\ built' = Append(built, [fn |-> "build_sofr", handle |-> hd,
                                      disc_handle |-> hd, index_handle |-> hd,
                                      curve |-> curve])
    /\ SetCalState(Calendars_get(Calendars_get(CalState, "GT", hGT), "FD", hFD))
    /\ SetQuoteState(GetHelperQuotes(QuoteState, SofrTickers, 1))
    /\ UNCHANGED <<module, written, rows, update_raised>>
    /\ UNCHANGED <<solverVars, policyVars, tickerVars>>

\* build_fed_funds(sofr_handle): as build_sofr, the helpers discounting on
\* the handle passed in
BuildFedFunds(sofr_handle, hFD) ==
    /\ module = "wirp"
    /\ Len(built) < MaxBuilds
    /\ LET hd    == Len(handle_link) + 1
           curve == n_curves + 1
       IN  /\ handle_link' = LinkTo(Append(handle_link, 0), hd, curve)
           /\ n_curves' = curve
           /\ built' = Append(built, [fn |-> "build_fed_funds", handle |-> hd,
                                      disc_handle |-> sofr_handle, index_handle |-> hd,
                                      curve |-> curve])
    /\ SetCalState(Calendars_get(CalState, "FD", hFD))
    /\ SetQuoteState(GetHelperQuotes(QuoteState, FedFundsTickers, 1))
    /\ UNCHANGED <<module, written, rows, update_raised>>
    /\ UNCHANGED <<solverVars, policyVars, tickerVars>>

\* curve_s45.build_curve(quotes): this_curve_handle is created empty and
\* given to the index; the helpers get no discounting handle; the curve is
\* built and returned with the index.  No linkTo is called.
BuildCurve ==
    /\ module = "curve_s45"
    /\ Len(built) < MaxBuilds
    /\ LET hd    == Len(handle_link) + 1
           curve == n_curves + 1
           q1    == Quotes_get(quotes_data, heap, S45IndexTicker)
           st1   == [data |-> q1.data, heap |-> q1.heap,
                     issued |-> issued \cup {<<S45IndexTicker, q1.obj>>}]
       IN  /\ handle_link' = Append(handle_link, 0)
           /\ n_curves' = curve
           /\ built' = Append(built, [fn |-> "build_curve", handle |-> hd,
                                      disc_handle |-> 0, index_handle |-> hd,
                                      curve |-> curve])
           /\ SetQuoteState(GetHelperQuotes(GetHelperQuotes(st1, S45FraTickers, 1),
                                            S45SwapTickers, 1))
    /\ UNCHANGED <<module, written, rows, update_raised>>
    /\ UNCHANGED <<calVars, solverVars, policyVars, tickerVars>>

\* The handles a caller can pass to build_fed_funds: Curve.handle of a
\* curve built earlier (the script passes sofr.handle)
CurveHandles == { built[i].handle : i \in 1..Len(built) }

----------------------------------------------------------------------------
(* The quote registry as a program, and the calendar registry with the      *)
(* builders as a program                                                    *)

vars == <<regVars, calVars, curveVars, solverVars, policyVars, tickerVars>>

\* No solver call, no policy loop and no bucket pick is under way
SolverIdle ==
    /\ s_pc = "idle"
    /\ effective_date = 0 /\ maturity_date = 0 /\ calendar = {}
    /\ prior_implied_rate = 0 /\ tgt_arg = <<>> /\ swap_rate = 0
    /\ precision = 0 /\ h = 0
    /\ tgt_compound_factor = 0 /\ guess = 0 /\ guess_compound_factor = 0
    /\ visited = {} /\ result = 0 /\ err = ""

PolicyIdle ==
    /\ policy_dates = <<>> /\ fair_rate = <<>> /\ cur = 0 /\ log = <<>>

TickerIdle ==
    /\ today = 0 /\ t_pc = "done" /\ t_result = <<>>
    /\ cur_implied_on_rate = [level |-> 0, bucket |-> <<>>]

Init ==
    /\ SolverIdle /\ PolicyIdle /\ TickerIdle
    /\ module \in {"wirp", "curve_s45"}
    /\ quotes_data = [t \in Tickers |-> 0]
    /\ heap = <<>>
    /\ issued = {}
    /\ written = [t \in Tickers |-> 0]
    /\ rows = <<>>
    /\ update_raised = FALSE
    /\ calendars_data = [id \in CalIds |-> [obj |-> 0, holidays |-> {}]]
    /\ bds_calls = [id \in CalIds |-> 0]
    /\ get_calls = [id \in CalIds |-> 0]
    /\ cal_returned = {}
    /\ handle_link = <<>>
    /\ n_curves = 0
    /\ built = <<>>

\* Any sequence of Quotes.get and Quotes.update
Next ==
    \/ \E t \in ApiKeys : QuotesGet(t)
    \/ \E reply \in Replies(Registered) : QuotesUpdate(reply)

Spec == Init /\ [][Next]_vars

\* Any sequence of Calendars.get and of builds
NextBuild ==
    \/ \E id \in CalIds, hs \in HolidaySets : CalendarsGet(id, hs)
    \/ \E hGT \in HolidaySets, hFD \in HolidaySets : BuildSofr(hGT, hFD)
    \/ \E sh \in CurveHandles, hFD \in HolidaySets : BuildFedFunds(sh, hFD)
    \/ BuildCurve

SpecBuild == Init /\ [][NextBuild]_vars

----------------------------------------------------------------------------
(* Claims about the registries (under Spec) and the builders (under SpecBuild) *)

\* C3: every handle get has returned reads the level update last wrote for
\* its ticker, 0.0 if update wrote none: get never replaces a quote, so a
\* handle issued before an update sees that update.
C3_HandlesReadLastWritten ==
    \A p \in issued : heap[p[2]] = written[p[1]]

\* C3's case: a handle was issued and an update has since written its ticker
C3_Witness ==
    \E p \in issued : written[p[1]] # 0 /\ rows # <<>> /\ p[1] \in DOMAIN rows

\* C4: an update whose reply has no row for a registered ticker does not
\* raise, leaves that ticker's quote at the value it had, and writes the
\* quotes whose rows are present.  (An update step is a step that is
\* QuotesUpdate of the reply it leaves in rows.)
C4_MissingRowKeepsValue ==
    [][QuotesUpdate(rows') =>
          /\ ~update_raised'
          /\ \A t \in Registered :
                heap'[quotes_data'[t]] =
                    IF t \in DOMAIN rows' THEN rows'[t] ELSE heap[quotes_data[t]]]_vars

\* C4's case: the last update wrote a row and had none for a registered
\* ticker whose quote holds a level an earlier update wrote
C4_Witness ==
    /\ DOMAIN rows # {}
    /\ \E y \in Registered \ DOMAIN rows : heap[quotes_data[y]] # 0

\* C5: the holiday provider is called once per calendar id that was ever
\* requested and never for another; every get of an id returned the one
\* calendar object that is still cached under it.
C5_OneFetchPerCalendar ==
    /\ \A id \in CalIds : bds_calls[id] = IF get_calls[id] > 0 THEN 1 ELSE 0
    /\ \A p \in cal_returned : calendars_data[p[1]].obj = p[2]

\* C5's case: a calendar id was requested at least twice
C5_Witness ==
    \E id \in CalIds : get_calls[id] >= 2

\* C10: when a build returns, the handle its index forecasts on is linked to
\* the returned curve, and the discounting handle given to its helpers, if
\* any, is linked to a curve.
C10_HandlesLinked ==
    \A i \in 1..Len(built) :
        /\ handle_link[built[i].index_handle] = built[i].curve
        /\ built[i].disc_handle # 0 => handle_link[built[i].disc_handle] # 0

----------------------------------------------------------------------------
(* Business days and compounding: wirp.py 47-51, 213-224 *)

Abs(x) == IF x < 0 THEN -x ELSE x

\* a / b rounded to the nearest integer (b # 0)
RoundDiv(a, b) ==
    LET n == IF b > 0 THEN a ELSE -a
        d == Abs(b)
    IN  (n \div d) + (IF 2 * (n % d) >= d THEN 1 ELSE 0)

\* calendar.addWeekend(1), calendar.addWeekend(7): Sunday and Saturday
IsWeekend(d) == d % 7 \in {1, 0}

\* a day that is neither a weekend day nor an added holiday
IsBusinessDay(hol, d) == ~IsWeekend(d) /\ d \notin hol

\* Mutant of businessDayList: every calendar day of the range
RECURSIVE businessDayList_AllDays(_, _, _)
businessDayList_AllDays(hol, from, to) ==
    IF from > to THEN <<>>
    ELSE <<from>> \o businessDayList_AllDays(hol, from + 1, to)

\* calendar.businessDayList(from, to): the business days d, from <= d <= to,
\* in increasing order (the callers here pass from <= to)
RECURSIVE businessDayList(_, _, _)
businessDayList(hol, from, to) ==
    IF from > to THEN <<>>
    ELSE (IF IsBusinessDay(hol, from) THEN <<from>> ELSE <<>>)
             \o businessDayList(hol, from + 1, to)

\* dates = calendar.businessDayList(effective_date, maturity_date - 1) + (maturity_date,)
AccrualDates(eff, mat, hol) == businessDayList(hol, eff, mat - 1) \o <<mat>>

\* result *= 1 + rate * (d2 - d1) / 360 over the consecutive pairs from i on
RECURSIVE Compound(_, _, _, _)
Compound(acc, rate, dates, i) ==
    IF i >= Len(dates) THEN acc
    ELSE Compound(RoundDiv(acc * (FScale + rate * (dates[i + 1] - dates[i])), FScale),
                  rate, dates, i + 1)

get_compound_factor(rate, eff, mat, hol) ==
    Compound(FScale, rate, AccrualDates(eff, mat, hol), 1)

----------------------------------------------------------------------------
(* get_implied_rate: wirp.py 227-260 *)

\* Mutant of LoopContinues: the signed error, without abs
LoopContinues_Signed(gcf, tgt, prec) == gcf - tgt > prec

\* while abs(guess_compound_factor - tgt_compound_factor) > precision
LoopContinues(gcf, tgt, prec) == Abs(gcf - tgt) > prec

\* the numerator of dx_dy: the centred difference of the compound factor
CentredDifference ==
    get_compound_factor(guess + h, effective_date, maturity_date, calendar)
        - get_compound_factor(guess - h, effective_date, maturity_date, calendar)

\* lines 237-247: the default target from the swap's fair rate, the first guess
SolverEnter ==
    /\ s_pc = "call"
    /\ tgt_compound_factor' =
           IF tgt_arg = <<>>
           THEN FScale + swap_rate * (maturity_date - effective_date)
           ELSE tgt_arg[1]
    /\ guess' = prior_implied_rate
    /\ guess_compound_factor' =
           get_compound_factor(prior_implied_rate, effective_date, maturity_date, calendar)
    /\ visited' = {}
    /\ s_pc' = "loop"
    /\ UNCHANGED <<argVars, result, err>>
    /\ UNCHANGED <<regVars, calVars, curveVars, policyVars, tickerVars>>

\* lines 250-258: one pass of the loop body, guess - f_x / dx_dy with
\* dx_dy = CentredDifference / (2 * h)
NewtonStep ==
    /\ s_pc = "loop"
    /\ LoopContinues(guess_compound_factor, tgt_compound_factor, precision)
    /\ CentredDifference # 0
    /\ LET f_x == guess_compound_factor - tgt_compound_factor
           new == guess - RoundDiv(f_x * 2 * h, CentredDifference)
       IN  /\ guess' = new
           /\ guess_compound_factor' =
                  get_compound_factor(new, effective_date, maturity_date, calendar)
    /\ visited' = visited \cup {guess}
    /\ UNCHANGED <<s_pc, argVars, tgt_compound_factor, result, err>>
    /\ UNCHANGED <<regVars, calVars, curveVars, policyVars, tickerVars>>

\* line 255 with dx_dy = 0.0: Python's float division raises ZeroDivisionError
NewtonZeroDivision ==
    /\ s_pc = "loop"
    /\ LoopContinues(guess_compound_factor, tgt_compound_factor, precision)
    /\ CentredDifference = 0
    /\ s_pc' = "raised"
    /\ err' = "ZeroDivisionError"
    /\ UNCHANGED <<argVars, loopVars, result>>
    /\ UNCHANGED <<regVars, calVars, curveVars, policyVars, tickerVars>>

\* lines 249, 260: the loop condition is false, return guess
SolverReturn ==
    /\ s_pc = "loop"
    /\ ~LoopContinues(guess_compound_factor, tgt_compound_factor, precision)
    /\ s_pc' = "returned"
    /\ result' = guess
    /\ UNCHANGED <<argVars, loopVars, err>>
    /\ UNCHANGED <<regVars, calVars, curveVars, policyVars, tickerVars>>

\* The arguments of one call
Windows ==
    { w \in (DateLo..(DateLo + MaxStart)) \X (DateLo..(DateLo + MaxStart + MaxSpan)) :
        w[1] < w[2] /\ w[2] - w[1] <= MaxSpan }

\* prior rates: 0, 5 % and the index level 5.33 read as a rate
Priors == {0, 5, 533}

\* target factors 0.98, 1.0, 1.00014, 1.005 and 1.10
Targets == {FScale - 720, FScale, FScale + 5, FScale + 180, FScale + 3600}

\* fair swap rates, per cent
FairRates == {0, 5, 12}

Precisions == {0, PrecisionUnits}

\* One call of get_implied_rate with any arguments, on fresh registries
InitSolver ==
    /\ module = "wirp"
    /\ quotes_data = [t \in Tickers |-> 0]
    /\ heap = <<>>
    /\ issued = {}
    /\ written = [t \in Tickers |-> 0]
    /\ rows = <<>>
    /\ update_raised = FALSE
    /\ calendars_data = [id \in CalIds |-> [obj |-> 0, holidays |-> {}]]
    /\ bds_calls = [id \in CalIds |-> 0]
    /\ get_calls = [id \in CalIds |-> 0]
    /\ cal_returned = {}
    /\ handle_link = <<>>
    /\ n_curves = 0
    /\ built = <<>>
    /\ PolicyIdle /\ TickerIdle
    /\ s_pc = "call"
    /\ \E w \in Windows : effective_date = w[1] /\ maturity_date = w[2]
    /\ calendar \in HolidaySets
    /\ prior_implied_rate \in Priors
    /\ \/ tgt_arg \in { <<t>> : t \in Targets } /\ swap_rate = 0
       \/ tgt_arg = <<>> /\ swap_rate \in FairRates
    /\ precision \in Precisions
    /\ h = HUnits
    /\ tgt_compound_factor = 0 /\ guess = 0 /\ guess_compound_factor = 0
    /\ visited = {} /\ result = 0 /\ err = ""

NextSolver ==
    \/ SolverEnter
    \/ NewtonStep
    \/ NewtonZeroDivision
    \/ SolverReturn

SpecSolver == InitSolver /\ [][NextSolver]_vars

----------------------------------------------------------------------------
(* Claims about get_compound_factor and get_implied_rate, checked under SpecSolver *)

\* C1: whenever get_implied_rate returns, the compound factor of the rate
\* returned, over the call's window and calendar, is within precision of
\* the target.
C1_RoundTrip ==
    s_pc = "returned" =>
        Abs(get_compound_factor(result, effective_date, maturity_date, calendar)
                - tgt_compound_factor) <= precision

\* C1's case: a call returned a rate the loop found (not the prior) for a
\* window of several accrual periods
C1_Witness ==
    /\ s_pc = "returned"
    /\ result # prior_implied_rate
    /\ Len(AccrualDates(effective_date, maturity_date, calendar)) >= 3

\* C2: every call ends: no guess comes back (the loop is deterministic, so
\* a guess met twice is met forever), a failure is a NonConvergence, and a
\* rate returned meets the target.
C2_EndsReturnedOrNonConvergence ==
    /\ s_pc = "loop" => guess \notin visited
    /\ s_pc = "raised" => err = "NonConvergence"
    /\ s_pc = "returned" =>
           Abs(get_compound_factor(result, effective_date, maturity_date, calendar)
                   - tgt_compound_factor) <= precision

\* effective is a business day and maturity is the next one
OneBusinessDayWindow ==
    /\ IsBusinessDay(calendar, effective_date)
    /\ IsBusinessDay(calendar, maturity_date)
    /\ \A d \in (effective_date + 1)..(maturity_date - 1) : ~IsBusinessDay(calendar, d)

\* C7: over a one-business-day window the compound factor of the current
\* guess is the single term 1 + guess * (maturity - effective) / 360.
C7_OneBusinessDaySingleTerm ==
    (s_pc \in {"loop", "returned", "raised"} /\ OneBusinessDayWindow) =>
        guess_compound_factor = FScale + guess * (maturity_date - effective_date)

\* C7's case: a Friday-to-Monday (or longer) one-business-day window whose
\* compound factor was computed at a rate the loop found
C7_Witness ==
    /\ s_pc = "returned"
    /\ OneBusinessDayWindow
    /\ maturity_date - effective_date >= 3
    /\ guess # prior_implied_rate
    /\ guess # 0

RECURSIVE SumDayCounts(_, _)
SumDayCounts(dates, i) ==
    IF i >= Len(dates) THEN 0
    ELSE (dates[i + 1] - dates[i]) + SumDayCounts(dates, i + 1)

\* C9: the dates get_compound_factor multiplies over start at effective,
\* end at maturity, increase strictly, and their day counts sum to
\* maturity - effective.
C9_AccrualDatesTileWindow ==
    s_pc # "call" =>
        LET dates == AccrualDates(effective_date, maturity_date, calendar)
        IN  /\ dates[1] = effective_date
            /\ dates[Len(dates)] = maturity_date
            /\ \A i \in 1..(Len(dates) - 1) : dates[i] < dates[i + 1]
            /\ SumDayCounts(dates, 1) = maturity_date - effective_date

----------------------------------------------------------------------------
(* The script after its set-up, wirp.py 301-304: both curves built, the     *)
(* index quote fetched, one update done                                     *)

\* The registries and curves after sofr = build_sofr(), fed_funds =
\* build_fed_funds(sofr.handle), quotes.get("FEDL01 Index"), quotes.update(),
\* the provider having returned `level` for the index (1 for the helpers'
\* tickers) and the holiday list hFD for calendar "FD" (none for "GT").
AfterSetUp(level, hFD) ==
    /\ module = "wirp"
    /\ LET none  == [data |-> [t \in Tickers |-> 0], heap |-> <<>>, issued |-> {}]
           s2    == GetHelperQuotes(GetHelperQuotes(none, SofrTickers, 1),
                                    FedFundsTickers, 1)
           g     == Quotes_get(s2.data, s2.heap, IndexTicker)
           reply == [t \in Tickers |-> IF t = IndexTicker THEN level ELSE 1]
           st    == WriteRows([data |-> g.data, heap |-> g.heap, raised |-> FALSE],
                              reply, DOMAIN reply)
       IN  /\ quotes_data = st.data
           /\ heap = st.heap
           /\ issued = s2.issued \cup {<<IndexTicker, g.obj>>}
           /\ written = reply
           /\ rows = reply
           /\ update_raised = st.raised
    /\ LET none == [data     |-> [id \in CalIds |-> [obj |-> 0, holidays |-> {}]],
                    calls    |-> [id \in CalIds |-> 0],
                    gets     |-> [id \in CalIds |-> 0],
                    returned |-> {}]
           c1   == Calendars_get(none, "GT", {})
           c2   == Calendars_get(Calendars_get(c1, "FD", hFD), "FD", hFD)
           c3   == Calendars_get(Calendars_get(c2, "FD", hFD), "FD", hFD)
       IN  /\ calendars_data = c3.data
           /\ bds_calls = c3.calls
           /\ get_calls = c3.gets
           /\ cal_returned = c3.returned
    /\ handle_link = <<1, 2>>
    /\ n_curves = 2
    /\ built = << [fn |-> "build_sofr", handle |-> 1, disc_handle |-> 1,
                   index_handle |-> 1, curve |-> 1],
                  [fn |-> "build_fed_funds", handle |-> 2, disc_handle |-> 1,
                   index_handle |-> 2, curve |-> 2] >>

----------------------------------------------------------------------------
(* The policy-date loop: wirp.py 320-331 *)

\* Mutant of PolicyCall: the solve is warm-started from the rate the last
\* solve printed
PolicyCall_WarmStarted(i, hs) ==
    /\ s_pc = "idle"
    /\ Len(log) < MaxSolves
    /\ LET cs == Calendars_get(Calendars_get(CalState, "FD", hs), "FD", hs)
       IN  /\ SetCalState(cs)
           /\ calendar' = cs.data["FD"].holidays
    /\ effective_date' = policy_dates[i]
    /\ maturity_date' = policy_dates[i + 1]
    /\ prior_implied_rate' =
           IF log = <<>> THEN heap[quotes_data[IndexTicker]] * RateScale
           ELSE log[Len(log)][2]
    /\ tgt_arg' = <<>>
    /\ swap_rate' = fair_rate[i]
    /\ precision' = PrecisionUnits
    /\ h' = HUnits
    /\ cur' = i
    /\ s_pc' = "call"
    /\ UNCHANGED <<loopVars, result, err, policy_dates, fair_rate, log>>
    /\ UNCHANGED <<regVars, curveVars, tickerVars>>

\* get_implied_rate(fed_funds, index_quote.value(), effective_date,
\* maturity_date, calendars.get("FD")) for window i of policy_dates, with the
\* default target, precision and h; make_fed_funds_swap reads
\* calendars.get("FD") once more.  index_quote.value() is the level as
\* quoted, in per cent, taken as the rate.
PolicyCall(i, hs) ==
    /\ s_pc = "idle"
    /\ Len(log) < MaxSolves
    /\ LET cs == Calendars_get(Calendars_get(CalState, "FD", hs), "FD", hs)
       IN  /\ SetCalState(cs)
           /\ calendar' = cs.data["FD"].holidays
    /\ effective_date' = policy_dates[i]
    /\ maturity_date' = policy_dates[i + 1]
    /\ prior_implied_rate' = heap[quotes_data[IndexTicker]] * RateScale
    /\ tgt_arg' = <<>>
    /\ swap_rate' = fair_rate[i]
    /\ precision' = PrecisionUnits
    /\ h' = HUnits
    /\ cur' = i
    /\ s_pc' = "call"
    /\ UNCHANGED <<loopVars, result, err, policy_dates, fair_rate, log>>
    /\ UNCHANGED <<regVars, curveVars, tickerVars>>

\* print(effective_date, maturity_date, <the rate returned>)
PolicyPrint ==
    /\ s_pc = "returned"
    /\ cur # 0
    /\ log' = Append(log, <<cur, result>>)
    /\ cur' = 0
    /\ s_pc' = "idle"
    /\ UNCHANGED <<argVars, loopVars, result, err, policy_dates, fair_rate>>
    /\ UNCHANGED <<regVars, calVars, curveVars, tickerVars>>

\* Three policy dates from DateLo on: two adjacent windows, of 1..MaxSpan
\* days each, that share the middle date
PolicyDateLists ==
    { <<DateLo, DateLo + g1, DateLo + g1 + g2>> : g1 \in 1..MaxSpan, g2 \in 1..MaxSpan }

InitPolicy ==
    /\ \E level \in Levels, hFD \in HolidaySets : AfterSetUp(level, hFD)
    /\ SolverIdle /\ TickerIdle
    /\ policy_dates \in PolicyDateLists
    /\ fair_rate \in [1..2 -> FairRates]
    /\ cur = 0
    /\ log = <<>>

NextPolicy ==
    \/ \E i \in 1..(Len(policy_dates) - 1), hs \in HolidaySets : PolicyCall(i, hs)
    \/ SolverEnter
    \/ NewtonStep
    \/ NewtonZeroDivision
    \/ SolverReturn
    \/ PolicyPrint

SpecPolicy == InitPolicy /\ [][NextPolicy]_vars

\* C8: whatever was solved before, a window of the policy dates always gets
\* the same rate: the rate of a window solved first (in isolation) and the
\* rate of the same window solved after another one agree.
C8_SolveIsReproducible ==
    \A i \in 1..Len(log), j \in 1..Len(log) :
        log[i][1] = log[j][1] => log[i][2] = log[j][2]

\* C8's case: a window was solved, then the adjacent one, then the first again
C8_Witness ==
    /\ Len(log) >= 3
    /\ log[1][1] = log[3][1]
    /\ log[2][1] # log[1][1]
    /\ log[1][2] # log[2][2]

----------------------------------------------------------------------------
(* Dates and calendar.advance, as QuantLib computes them: wirp.py 264, 282 *)

\* 1 January 2024 as a serial number (32 days before 2 February 2024); the
\* dates of the model are not earlier
Jan1st2024 == DateLo - 32

IsLeap(y) == (y % 4 = 0 /\ y % 100 # 0) \/ y % 400 = 0

MonthLength(m, y) ==
    IF m = 2 THEN (IF IsLeap(y) THEN 29 ELSE 28)
    ELSE IF m \in {4, 6, 9, 11} THEN 30 ELSE 31

YearLength(y) == IF IsLeap(y) THEN 366 ELSE 365

\* [year, month, day] of a serial number, counted from day d of month m of year y
RECURSIVE Ymd(_, _, _, _)
Ymd(serial, y, m, first) ==
    IF m = 1 /\ serial >= first + YearLength(y) THEN Ymd(serial, y + 1, 1, first + YearLength(y))
    ELSE IF serial >= first + MonthLength(m, y)
         THEN Ymd(serial, y, m + 1, first + MonthLength(m, y))
         ELSE [year |-> y, month |-> m, day |-> serial - first + 1]

DateParts(serial) == Ymd(serial, 2024, 1, Jan1st2024)

\* the serial number of day 1 of month m of year y
RECURSIVE MonthStart(_, _)
MonthStart(y, m) ==
    IF m > 1 THEN MonthStart(y, m - 1) + MonthLength(m - 1, y)
    ELSE IF y > 2024 THEN MonthStart(y - 1, 1) + YearLength(y - 1)
         ELSE Jan1st2024

\* date + n months (n >= 0): the same day of the month n months on, cut to
\* that month's length
AddMonths(serial, n) ==
    LET p  == DateParts(serial)
        k  == (p.month - 1) + n
        y  == p.year + (k \div 12)
        m  == (k % 12) + 1
        d  == Min(p.day, MonthLength(m, y))
    IN  MonthStart(y, m) + d - 1

\* calendar.adjust(d, Following): the first business day on or after d
RECURSIVE Following(_, _)
Following(hol, d) == IF IsBusinessDay(hol, d) THEN d ELSE Following(hol, d + 1)

\* calendar.advance(d, n, ql.Days), n > 0: n business days on
RECURSIVE AdvanceDays(_, _, _)
AdvanceDays(hol, d, n) ==
    IF n = 0 THEN d ELSE AdvanceDays(hol, Following(hol, d + 1), n - 1)

\* ql.Period(tenor) of the tenors of the preference list
Period(tenor) ==
    CASE tenor = "1W" -> [length |-> 1, units |-> "Weeks"]
      [] tenor = "2W" -> [length |-> 2, units |-> "Weeks"]
      [] tenor = "3W" -> [length |-> 3, units |-> "Weeks"]
      [] tenor = "1M" -> [length |-> 1, units |-> "Months"]
      [] tenor = "2M" -> [length |-> 2, units |-> "Months"]
      [] tenor = "3M" -> [length |-> 3, units |-> "Months"]
      [] tenor = "4M" -> [length |-> 4, units |-> "Months"]
      [] tenor = "5M" -> [length |-> 5, units |-> "Months"]
      [] tenor = "6M" -> [length |-> 6, units |-> "Months"]
      [] tenor = "9M" -> [length |-> 9, units |-> "Months"]
      [] tenor = "12M" -> [length |-> 12, units |-> "Months"]
      [] tenor = "18M" -> [length |-> 18, units |-> "Months"]

\* calendar.advance(d, period): d plus the period, adjusted Following
AdvancePeriod(hol, d, period) ==
    IF period.units = "Weeks" THEN Following(hol, d + 7 * period.length)
    ELSE Following(hol, AddMonths(d, period.length))

----------------------------------------------------------------------------
(* get_cur_implied_on_ticker and its caller: wirp.py 262-285, 306 *)

preferred_tickers ==
    << <<"1W", "USSO1Z Curncy">>, <<"2W", "USSO2Z Curncy">>, <<"3W", "USSO3Z Curncy">>,
       <<"1M", "USSOA Curncy">>, <<"2M", "USSOB Curncy">>, <<"3M", "USSOC Curncy">>,
       <<"4M", "USSOD Curncy">>, <<"5M", "USSOE Curncy">>, <<"6M", "USSOF Curncy">>,
       <<"9M", "USSOI Curncy">>, <<"12M", "USSO1 Curncy">>, <<"18M", "USSO1F Curncy">> >>

\* spot_date = calendar.advance(ql.Date.todaysDate(), 2, ql.Days)
SpotDate(hol, tday) == AdvanceDays(hol, tday, 2)

IsAfter(d, spot) == d > spot

\* [date for date in policy_dates if date > spot_date]
DatesAfter(dates, spot) == SelectSeq(dates, LAMBDA d : IsAfter(d, spot))

\* the loop over preferred_tickers from entry i on: the first entry whose
\* tenor, advanced from spot, is on or before the policy date; None if none
RECURSIVE FirstBucket(_, _, _, _)
FirstBucket(hol, spot, first_policy_date, i) ==
    IF i > Len(preferred_tickers) THEN <<>>
    ELSE IF first_policy_date >= AdvancePeriod(hol, spot, Period(preferred_tickers[i][1]))
         THEN preferred_tickers[i]
         ELSE FirstBucket(hol, spot, first_policy_date, i + 1)

\* get_cur_implied_on_ticker(policy_dates); [...][0] of an empty list raises
\* IndexError
GetCurImpliedOnTicker(hs) ==
    /\ t_pc = "call"
    /\ LET cs    == Calendars_get(CalState, "FD", hs)
           hol   == cs.data["FD"].holidays
           spot  == SpotDate(hol, today)
           after == DatesAfter(policy_dates, spot)
       IN  /\ SetCalState(cs)
           /\ IF after = <<>>
              THEN /\ t_pc' = "raised"
                   /\ t_result' = <<>>
              ELSE /\ t_pc' = "returned"
                   /\ t_result' = FirstBucket(hol, spot, after[1], 1)
    /\ UNCHANGED <<today, cur_implied_on_rate, policy_dates, fair_rate, cur, log>>
    /\ UNCHANGED <<regVars, curveVars, solverVars>>

\* cur_implied_on_rate = index_quote.value() if (res := ...) is None else res
TickerFallBack ==
    /\ t_pc = "returned"
    /\ cur_implied_on_rate' =
           IF t_result = <<>>
           THEN [level |-> heap[quotes_data[IndexTicker]], bucket |-> <<>>]
           ELSE [level |-> 0, bucket |-> t_result]
    /\ t_pc' = "done"
    /\ UNCHANGED <<today, t_result, policyVars>>
    /\ UNCHANGED <<regVars, calVars, curveVars, solverVars>>

\* Ordered lists of up to MaxPolicyDates policy dates
PolicyDayRange == (DateLo + 2)..(DateLo + 2 + MaxPolicyAhead)

RECURSIVE OrderedLists(_)
OrderedLists(n) ==
    IF n = 0 THEN {<<>>}
    ELSE LET shorter == OrderedLists(n - 1)
         IN  shorter \cup
                 { Append(l, d) : l \in { x \in shorter : Len(x) = n - 1 },
                                  d \in PolicyDayRange }

PolicyLists ==
    { l \in OrderedLists(MaxPolicyDates) :
        \A i \in 1..(Len(l) - 1) : l[i] < l[i + 1] }

InitTicker ==
    /\ \E level \in Levels, hFD \in HolidaySets : AfterSetUp(level, hFD)
    /\ SolverIdle
    /\ policy_dates \in PolicyLists
    /\ fair_rate = <<>> /\ cur = 0 /\ log = <<>>
    /\ today \in DateLo..(DateLo + MaxStart)
    /\ t_pc = "call"
    /\ t_result = <<>>
    /\ cur_implied_on_rate = [level |-> 0, bucket |-> <<>>]

NextTicker ==
    \/ \E hs \in HolidaySets : GetCurImpliedOnTicker(hs)
    \/ TickerFallBack

SpecTicker == InitTicker /\ [][NextTicker]_vars

\* What C6 says the function returns: for the first policy date on or after
\* spot, the first (shortest) entry of the preference list whose tenor,
\* advanced from spot, is on or before that date; None if there is no such
\* entry or no such date.
ClaimedBucket ==
    LET hol  == calendars_data["FD"].holidays
        spot == SpotDate(hol, today)
        from == SelectSeq(policy_dates, LAMBDA d : d >= spot)
    IN  IF from = <<>> THEN <<>> ELSE FirstBucket(hol, spot, from[1], 1)

\* C6: get_cur_implied_on_ticker returns, and returns the bucket (or None)
\* the claim describes.
C6_PicksBucketOrNone ==
    t_pc # "call" => (t_pc # "raised" /\ t_result = ClaimedBucket)

====
